---- MODULE Spec2Model ----
(***************************************************************************)
(* State machine of the business-lookup component                          *)
(* (src/src/components/Main.vue): the reactive refs of the component, the  *)
(* HTTP requests in flight, and one action per event handler of the        *)
(* script and per event binding of the template.                           *)
(*                                                                         *)
(* A handler runs to its first await in one step (JavaScript is single     *)
(* threaded); the continuation after the await is a second step, taken     *)
(* when the response (or the failure) of that request arrives.             *)
(***************************************************************************)
EXTENDS Integers, Sequences, FiniteSets, TLC

(***************************************************************************)
(* Bounds of the model.                                                    *)
(***************************************************************************)
\* search requests that may be in flight at once
MaxInFlight == 2
\* longest COMPANY_LIST the backend returns
MaxListLen == 25

\* Main.vue:76
itemsPerPage == 10

(***************************************************************************)
(* JSON values.  A value carries its JavaScript type in the name of its    *)
(* single field: [null], [str], [num], [arr] or [obj]; the value of an     *)
(* [obj] is a function from the names of the fields that are present.      *)
(***************************************************************************)
null == [null |-> TRUE]
Str(s) == [str |-> s]
Num(n) == [num |-> n]
Arr(a) == [arr |-> a]
Obj(f) == [obj |-> f]

\* `data && typeof data === 'object'` (arrays are objects, null is falsy)
IsObjectLike(j) == DOMAIN j = {"obj"} \/ DOMAIN j = {"arr"}
\* `'k' in data`, for a value that passed IsObjectLike
HasField(j, k) == DOMAIN j = {"obj"} /\ k \in DOMAIN j.obj
\* `Array.isArray(v)`
IsArray(j) == DOMAIN j = {"arr"}

(***************************************************************************)
(* Text of the search field: a sequence of characters, so that trim() is   *)
(* computed and not assumed.                                               *)
(***************************************************************************)
Whitespace == {" "}
\* the texts typed: empty, whitespace only, and one with whitespace around
Texts == {<<>>, <<" ">>, <<" ", "a", " ">>}

RECURSIVE TrimStart(_)
TrimStart(t) ==
  IF t # <<>> /\ Head(t) \in Whitespace THEN TrimStart(Tail(t)) ELSE t

RECURSIVE TrimEnd(_)
TrimEnd(t) ==
  IF t # <<>> /\ t[Len(t)] \in Whitespace
  THEN TrimEnd(SubSeq(t, 1, Len(t) - 1)) ELSE t

\* String.prototype.trim
Trim(t) == TrimEnd(TrimStart(t))

\* IsBlank without the trim
IsBlankUntrimmed(t) == t = <<>>

\* `!searchText.value.trim()`: the empty string is the only falsy string
IsBlank(t) == Trim(t) = <<>>

SearchTypes == {"UEN", "NAME", "SSIC"}

(***************************************************************************)
(* Type guards, Main.vue:37-54.                                            *)
(***************************************************************************)
isSingleCompanyResponse(data) ==
  /\ IsObjectLike(data)
  /\ HasField(data, "UEN")
  /\ HasField(data, "ENTITY_NAME")
  /\ HasField(data, "DATA_TYPE")

\* isSsicSummaryResponse asking for the DATA_TYPE that the interface
\* SsicSummaryData declares (Main.vue:18-22)
isSsicSummaryWithDataType(data) ==
  /\ IsObjectLike(data)
  /\ HasField(data, "DATA_TYPE")
  /\ HasField(data, "SSIC")
  /\ HasField(data, "TOTAL_COUNT")

isSsicSummaryResponse(data) ==
  /\ IsObjectLike(data)
  /\ HasField(data, "SSIC")
  /\ HasField(data, "TOTAL_COUNT")

\* isMultipleCompanyResponse without the Array.isArray test of Main.vue:53
isMultipleCompanyAnyList(data) ==
  /\ IsObjectLike(data)
  /\ HasField(data, "DATA_TYPE")
  /\ data.obj.DATA_TYPE = Str("MULTIPLE_COM")
  /\ HasField(data, "COMPANY_LIST")

isMultipleCompanyResponse(data) ==
  /\ IsObjectLike(data)
  /\ HasField(data, "DATA_TYPE")
  /\ data.obj.DATA_TYPE = Str("MULTIPLE_COM")
  /\ HasField(data, "COMPANY_LIST")
  /\ IsArray(data.obj.COMPANY_LIST)

(***************************************************************************)
(* Messages.                                                               *)
(***************************************************************************)
BlankMessage == "Please enter a search term."
InvalidFormatMessage == "No results found or invalid response format."
NotFoundMessage == "No Live Company Found"
UnexpectedMessage == "An unexpected error occurred. Please try again."
ContactUsNotice == "For detailed reports on any of these companies, please contact us."

(***************************************************************************)
(* Payloads of the backend.  The backend is an opaque collaborator: every  *)
(* request may be answered with any payload of the universe, or fail.      *)
(***************************************************************************)
\* row i of a COMPANY_LIST (BusinessData, Main.vue:7-16)
Company(i) ==
  Obj([DATA_TYPE |-> Str("SINGLE_COM"), UEN |-> Str(ToString(i)),
       ENTITY_NAME |-> Str("Acme")])

CompanyList(n) == Arr([i \in 1..n |-> Company(i)])

ListPayload(n) ==
  Obj([DATA_TYPE |-> Str("MULTIPLE_COM"), COMPANY_LIST |-> CompanyList(n)])

\* the lengths of the lists returned: none, one row, one row more than a
\* page, and the longest
ListLens == {0, 1, itemsPerPage + 1, MaxListLen}

\* the payloads used with the whole component: one of each shape, and the
\* payloads on which two guards hold
Payloads ==
  {ListPayload(n) : n \in ListLens}
  \cup { null,
         Obj([message |-> Str("no such company")]),
         Company(1),
         Obj([SSIC |-> Str("62010"), TOTAL_COUNT |-> Num(42)]),
         Obj([SSIC |-> Str("62010"), TOTAL_COUNT |-> Str("42")]),
         Obj([DATA_TYPE |-> Str("MULTIPLE_COM"), COMPANY_LIST |-> CompanyList(1),
              SSIC |-> Str("62010"), TOTAL_COUNT |-> Num(1)]),
         Obj([DATA_TYPE |-> Str("SINGLE_COM"), UEN |-> Str("1"),
              ENTITY_NAME |-> Str("Acme"),
              SSIC |-> Str("62010"), TOTAL_COUNT |-> Num(1)]) }

\* the fields the guards and the fallback look at, and the values each may
\* take when it is present
ShapeFields ==
  {"UEN", "ENTITY_NAME", "DATA_TYPE", "SSIC", "TOTAL_COUNT", "COMPANY_LIST",
   "message"}

FieldOptions(k) ==
  CASE k = "UEN" -> <<Str("1")>>
    [] k = "ENTITY_NAME" -> <<Str("Acme")>>
    [] k = "DATA_TYPE" -> <<Str("X"), Str("MULTIPLE_COM")>>
    [] k = "SSIC" -> <<Str("62010")>>
    [] k = "TOTAL_COUNT" -> <<Num(42), Str("42")>>
    [] k = "COMPANY_LIST" -> <<Str("none"), CompanyList(0), CompanyList(1)>>
    [] k = "message" -> <<Str("no such company"), Str("")>>

FieldChoices ==
  {c \in [ShapeFields -> 0..3] : \A k \in ShapeFields : c[k] <= Len(FieldOptions(k))}

\* every combination of present and absent fields, and the values that
\* are no objects
ShapePayloads ==
  {Obj([k \in {f \in ShapeFields : c[f] > 0} |-> FieldOptions(k)[c[k]]]) :
     c \in FieldChoices}
  \cup {null, Str("oops"), Arr(<<>>)}

\* a rejected request: the value thrown by `await restOperation.response`
\* or by `await body.json()`.  statusCode 0 stands for a thrown value
\* without a response, isError for `error instanceof Error`, message for
\* `error.message`.
Failures ==
  { [ok |-> FALSE, statusCode |-> 404, isError |-> TRUE, message |-> "Not Found"],
    [ok |-> FALSE, statusCode |-> 404, isError |-> FALSE, message |-> ""],
    [ok |-> FALSE, statusCode |-> 500, isError |-> TRUE, message |-> "rate limited"],
    [ok |-> FALSE, statusCode |-> 500, isError |-> TRUE, message |-> ""],
    [ok |-> FALSE, statusCode |-> 0, isError |-> FALSE, message |-> ""] }

Success(raw) == [ok |-> TRUE, body |-> raw]

(***************************************************************************)
(* State.                                                                  *)
(***************************************************************************)
VARIABLES
  searchType,              \* Main.vue:63
  searchText,              \* Main.vue:64
  searchResults,           \* Main.vue:66, null or [type, data]
  errorMessage,            \* Main.vue:67
  isLoading,               \* Main.vue:68
  selectedCompanyDetails,  \* Main.vue:71, null or a payload
  isLoadingDetails,        \* Main.vue:72
  currentPage,             \* Main.vue:75
  showHeadings,            \* Main.vue:83
  showNotification,        \* Main.vue:59
  notificationMessage,     \* Main.vue:60
  inflight,                \* the search requests awaiting their response, oldest first
  detailInflight,          \* the drill-down requests awaiting their response
  lastApplied,             \* history: the search response handled last since the last reset
  lastDetail               \* history: "swallowed" after a step that only logged a drill-down response

vars ==
  <<searchType, searchText, searchResults, errorMessage, isLoading,
    selectedCompanyDetails, isLoadingDetails, currentPage,
    showHeadings, showNotification, notificationMessage, inflight,
    detailInflight, lastApplied, lastDetail>>

notificationVars == <<showNotification, notificationMessage>>
queryVars == <<searchType, searchText>>
networkVars == <<inflight, detailInflight>>

Init ==
  /\ searchType = "UEN"
  /\ searchText = <<>>
  /\ searchResults = null
  /\ errorMessage = ""
  /\ isLoading = FALSE
  /\ selectedCompanyDetails = null
  /\ isLoadingDetails = FALSE
  /\ currentPage = 1
  /\ showHeadings = TRUE
  /\ showNotification = FALSE
  /\ notificationMessage = ""
  /\ inflight = <<>>
  /\ detailInflight = <<>>
  /\ lastApplied = null
  /\ lastDetail = "none"

(***************************************************************************)
(* Computed properties, Main.vue:116-130.                                  *)
(***************************************************************************)
HoldsList ==
  /\ searchResults # null
  /\ searchResults.type = "MULTIPLE_COM"
  /\ HasField(searchResults.data, "COMPANY_LIST")

\* Ceil rounding down, as Math.floor(n / d)
CeilRoundingDown(n, d) == n \div d

\* Math.ceil(n / d) for n >= 0, d > 0
Ceil(n, d) == (n + d - 1) \div d

Min(a, b) == IF a < b THEN a ELSE b

\* Array.prototype.slice(start, end) for 0 <= start <= end
Slice(a, start, end) == SubSeq(a, Min(start, Len(a)) + 1, Min(end, Len(a)))

totalPages ==
  IF HoldsList
  THEN Ceil(Len(searchResults.data.obj.COMPANY_LIST.arr), itemsPerPage)
  ELSE 0

\* PageSlice taking currentPage as an index that starts at 0
PageSliceFromZero(list, page) ==
  LET start == page * itemsPerPage
      end == start + itemsPerPage
  IN Slice(list, start, end)

\* the slice that paginatedCompanyList takes when currentPage is page
PageSlice(list, page) ==
  LET start == (page - 1) * itemsPerPage
      end == start + itemsPerPage
  IN Slice(list, start, end)

paginatedCompanyList ==
  IF HoldsList
  THEN PageSlice(searchResults.data.obj.COMPANY_LIST.arr, currentPage)
  ELSE <<>>

(***************************************************************************)
(* What the template renders, Main.vue:364-456.                            *)
(***************************************************************************)
ResultsContainerShown ==
  /\ ~isLoading
  /\ errorMessage # "" \/ searchResults # null \/ selectedCompanyDetails # null

\* the v-if / v-else-if chain of the results container
ListViewShown ==
  /\ ResultsContainerShown
  /\ ~isLoadingDetails
  /\ selectedCompanyDetails = null
  /\ searchResults # null
  /\ ~HasField(searchResults.data, "SSIC")
  /\ HasField(searchResults.data, "COMPANY_LIST")

PaginationShown == ListViewShown /\ totalPages > 1

(***************************************************************************)
(* resetResults, Main.vue:107-113: the values it leaves in the refs it     *)
(* writes.  The handlers that call it take their next values from here.    *)
(***************************************************************************)
\* resetResults as it was before the selection was added to it
\* (compare Todos.vue:64-65)
resetResultsKeepsSelection ==
  [ showHeadings |-> TRUE,
    searchResults |-> null,
    errorMessage |-> "",
    selectedCompanyDetails |-> selectedCompanyDetails,
    currentPage |-> 1 ]

\* resetResults as it was before the pagination was added to it: the page
\* is not put back to 1 (Main.vue:112)
resetResultsKeepsPage ==
  [ showHeadings |-> TRUE,
    searchResults |-> null,
    errorMessage |-> "",
    selectedCompanyDetails |-> null,
    currentPage |-> currentPage ]

resetResults ==
  [ showHeadings |-> TRUE,
    searchResults |-> null,
    errorMessage |-> "",
    selectedCompanyDetails |-> null,
    currentPage |-> 1 ]

\* a click on the search box that no handler stops bubbles to
\* `@click="resetResults"`, Main.vue:309
ResetByBubbling ==
  /\ showHeadings' = resetResults.showHeadings
  /\ searchResults' = resetResults.searchResults
  /\ errorMessage' = resetResults.errorMessage
  /\ selectedCompanyDetails' = resetResults.selectedCompanyDetails
  /\ currentPage' = resetResults.currentPage
  /\ lastApplied' = null
  /\ lastDetail' = "none"

(***************************************************************************)
(* Query composer.                                                         *)
(***************************************************************************)
\* v-model on the text input, Main.vue:328
SetSearchText(t) ==
  /\ t # searchText
  /\ searchText' = t
  /\ UNCHANGED <<searchType, searchResults, errorMessage, isLoading,
                 selectedCompanyDetails, isLoadingDetails, currentPage,
                 showHeadings, notificationVars, networkVars, lastApplied>>
  /\ lastDetail' = "none"

\* a click on the dropdown toggle or into the text input: no handler stops
\* it, so it bubbles to `@click="resetResults"`, Main.vue:309.  (The refs
\* isDropdownOpen and isDisclaimerOpen only open and close the two panels
\* and are read by no other handler; they are not part of the state.)
ClickSearchBox ==
  /\ ResetByBubbling
  /\ UNCHANGED <<queryVars, isLoading, isLoadingDetails, notificationVars,
                 networkVars>>

\* Main.vue:93-96, and the bubbling click
selectOption(option) ==
  /\ searchType' = option
  /\ ResetByBubbling
  /\ UNCHANGED <<searchText, isLoading, isLoadingDetails, notificationVars,
                 networkVars>>

(***************************************************************************)
(* search, Main.vue:151-176: the part that runs before the first await.    *)
(***************************************************************************)
\* every request of this list has been followed by a later submission
Supersede(reqs) ==
  [i \in DOMAIN reqs |-> [reqs[i] EXCEPT !.superseded = TRUE]]

\* search hiding the notification of the previous search on submission
searchHidesNotification ==
  /\ showHeadings' = FALSE
  /\ searchResults' = resetResults.searchResults
  /\ selectedCompanyDetails' = resetResults.selectedCompanyDetails
  /\ currentPage' = resetResults.currentPage
  /\ lastApplied' = null
  /\ lastDetail' = "none"
  /\ IF IsBlank(searchText)
     THEN /\ errorMessage' = BlankMessage
          /\ isLoading' = FALSE
          /\ inflight' = inflight
     ELSE /\ Len(inflight) < MaxInFlight
          /\ errorMessage' = resetResults.errorMessage
          /\ isLoading' = TRUE
          /\ inflight' = Append(Supersede(inflight),
                                [type |-> searchType, data |-> Trim(searchText),
                                 superseded |-> FALSE])
  /\ showNotification' = FALSE
  /\ UNCHANGED <<queryVars, isLoadingDetails, notificationMessage,
                 detailInflight>>

\* search sending searchText as typed, without the trim of Main.vue:166
searchSendsRawText ==
  /\ showHeadings' = FALSE
  /\ searchResults' = resetResults.searchResults
  /\ selectedCompanyDetails' = resetResults.selectedCompanyDetails
  /\ currentPage' = resetResults.currentPage
  /\ lastApplied' = null
  /\ lastDetail' = "none"
  /\ IF IsBlank(searchText)
     THEN /\ errorMessage' = BlankMessage
          /\ isLoading' = FALSE
          /\ inflight' = inflight
     ELSE /\ Len(inflight) < MaxInFlight
          /\ errorMessage' = resetResults.errorMessage
          /\ isLoading' = TRUE
          /\ inflight' = Append(Supersede(inflight),
                                [type |-> searchType, data |-> searchText,
                                 superseded |-> FALSE])
  /\ UNCHANGED <<queryVars, isLoadingDetails, notificationVars, detailInflight>>

\* search returning on a blank text without the reset of isLoading of
\* Main.vue:157
searchBlankKeepsLoading ==
  /\ showHeadings' = FALSE
  /\ searchResults' = resetResults.searchResults
  /\ selectedCompanyDetails' = resetResults.selectedCompanyDetails
  /\ currentPage' = resetResults.currentPage
  /\ lastApplied' = null
  /\ lastDetail' = "none"
  /\ IF IsBlank(searchText)
     THEN /\ errorMessage' = BlankMessage
          /\ isLoading' = TRUE
          /\ inflight' = inflight
     ELSE /\ Len(inflight) < MaxInFlight
          /\ errorMessage' = resetResults.errorMessage
          /\ isLoading' = TRUE
          /\ inflight' = Append(Supersede(inflight),
                                [type |-> searchType, data |-> Trim(searchText),
                                 superseded |-> FALSE])
  /\ UNCHANGED <<queryVars, isLoadingDetails, notificationVars, detailInflight>>

\* search with the blank-text return inside the try block, so that the
\* finally block of Main.vue:213-217 runs for it
searchBlankInsideTry ==
  /\ showHeadings' = FALSE
  /\ searchResults' = resetResults.searchResults
  /\ selectedCompanyDetails' = resetResults.selectedCompanyDetails
  /\ currentPage' = resetResults.currentPage
  /\ lastApplied' = null
  /\ lastDetail' = "none"
  /\ IF IsBlank(searchText)
     THEN /\ errorMessage' = BlankMessage
          /\ isLoading' = FALSE
          /\ inflight' = inflight
          /\ notificationMessage' = ContactUsNotice
          /\ showNotification' = TRUE
     ELSE /\ Len(inflight) < MaxInFlight
          /\ errorMessage' = resetResults.errorMessage
          /\ isLoading' = TRUE
          /\ inflight' = Append(Supersede(inflight),
                                [type |-> searchType, data |-> Trim(searchText),
                                 superseded |-> FALSE])
          /\ UNCHANGED notificationVars
  /\ UNCHANGED <<queryVars, isLoadingDetails, detailInflight>>

search ==
  /\ showHeadings' = FALSE
  /\ searchResults' = resetResults.searchResults
  /\ selectedCompanyDetails' = resetResults.selectedCompanyDetails
  /\ currentPage' = resetResults.currentPage
  /\ lastApplied' = null
  /\ lastDetail' = "none"
  /\ IF IsBlank(searchText)
     THEN /\ errorMessage' = BlankMessage
          /\ isLoading' = FALSE
          /\ inflight' = inflight
     ELSE /\ Len(inflight) < MaxInFlight
          /\ errorMessage' = resetResults.errorMessage
          /\ isLoading' = TRUE
          /\ inflight' = Append(Supersede(inflight),
                                [type |-> searchType, data |-> Trim(searchText),
                                 superseded |-> FALSE])
  /\ UNCHANGED <<queryVars, isLoadingDetails, notificationVars, detailInflight>>

\* `@keyup.enter="search"`, Main.vue:329: not disabled while loading
searchEnter == search

\* `@click.stop="search" :disabled="isLoading"`, Main.vue:334
searchClick ==
  /\ ~isLoading
  /\ search

(***************************************************************************)
(* search, Main.vue:175-217: the continuation after the await.             *)
(***************************************************************************)
\* SearchOutcome with the single-record check moved before the aggregate
\* check
SearchOutcomeSingleFirst(mode, resp, heldResults, heldError) ==
  IF resp.ok
  THEN LET rawResponse == resp.body IN
       IF isMultipleCompanyResponse(rawResponse)
       THEN [searchResults |-> [type |-> "MULTIPLE_COM", data |-> rawResponse],
             errorMessage |-> heldError]
       ELSE IF isSingleCompanyResponse(rawResponse)
       THEN [searchResults |->
               [type |-> IF mode = "UEN" THEN "UEN" ELSE "SINGLE_COM",
                data |-> rawResponse],
             errorMessage |-> heldError]
       ELSE IF isSsicSummaryResponse(rawResponse)
       THEN [searchResults |-> [type |-> "SSIC", data |-> rawResponse],
             errorMessage |-> heldError]
       ELSE IF IsObjectLike(rawResponse) /\ HasField(rawResponse, "message")
       THEN [searchResults |-> heldResults,
             errorMessage |-> rawResponse.obj.message.str]
       ELSE [searchResults |-> heldResults,
             errorMessage |-> InvalidFormatMessage]
  ELSE IF resp.statusCode = 404
       THEN [searchResults |-> heldResults, errorMessage |-> NotFoundMessage]
       ELSE IF resp.isError
       THEN [searchResults |-> heldResults, errorMessage |-> resp.message]
       ELSE [searchResults |-> heldResults, errorMessage |-> UnexpectedMessage]

\* SearchOutcome in the order the checks had before they were re-ordered
\* (Main.vue:178): the aggregate check first
SearchOutcomeAggregateFirst(mode, resp, heldResults, heldError) ==
  IF resp.ok
  THEN LET rawResponse == resp.body IN
       IF isSsicSummaryResponse(rawResponse)
       THEN [searchResults |-> [type |-> "SSIC", data |-> rawResponse],
             errorMessage |-> heldError]
       ELSE IF isMultipleCompanyResponse(rawResponse)
       THEN [searchResults |-> [type |-> "MULTIPLE_COM", data |-> rawResponse],
             errorMessage |-> heldError]
       ELSE IF isSingleCompanyResponse(rawResponse)
       THEN [searchResults |->
               [type |-> IF mode = "UEN" THEN "UEN" ELSE "SINGLE_COM",
                data |-> rawResponse],
             errorMessage |-> heldError]
       ELSE IF IsObjectLike(rawResponse) /\ HasField(rawResponse, "message")
       THEN [searchResults |-> heldResults,
             errorMessage |-> rawResponse.obj.message.str]
       ELSE [searchResults |-> heldResults,
             errorMessage |-> InvalidFormatMessage]
  ELSE IF resp.statusCode = 404
       THEN [searchResults |-> heldResults, errorMessage |-> NotFoundMessage]
       ELSE IF resp.isError
       THEN [searchResults |-> heldResults, errorMessage |-> resp.message]
       ELSE [searchResults |-> heldResults, errorMessage |-> UnexpectedMessage]

\* SearchOutcome with the fallback of App.vue:96-97, which reads the
\* field `error` and not `message`
SearchOutcomeErrorField(mode, resp, heldResults, heldError) ==
  IF resp.ok
  THEN LET rawResponse == resp.body IN
       IF isMultipleCompanyResponse(rawResponse)
       THEN [searchResults |-> [type |-> "MULTIPLE_COM", data |-> rawResponse],
             errorMessage |-> heldError]
       ELSE IF isSsicSummaryResponse(rawResponse)
       THEN [searchResults |-> [type |-> "SSIC", data |-> rawResponse],
             errorMessage |-> heldError]
       ELSE IF isSingleCompanyResponse(rawResponse)
       THEN [searchResults |->
               [type |-> IF mode = "UEN" THEN "UEN" ELSE "SINGLE_COM",
                data |-> rawResponse],
             errorMessage |-> heldError]
       ELSE IF IsObjectLike(rawResponse) /\ HasField(rawResponse, "error")
       THEN [searchResults |-> heldResults,
             errorMessage |-> rawResponse.obj.error.str]
       ELSE [searchResults |-> heldResults,
             errorMessage |-> InvalidFormatMessage]
  ELSE IF resp.statusCode = 404
       THEN [searchResults |-> heldResults, errorMessage |-> NotFoundMessage]
       ELSE IF resp.isError
       THEN [searchResults |-> heldResults, errorMessage |-> resp.message]
       ELSE [searchResults |-> heldResults, errorMessage |-> UnexpectedMessage]

\* SearchOutcome with the catch block testing `error instanceof Error`
\* before the status code
SearchOutcomeErrorFirst(mode, resp, heldResults, heldError) ==
  IF resp.ok
  THEN LET rawResponse == resp.body IN
       IF isMultipleCompanyResponse(rawResponse)
       THEN [searchResults |-> [type |-> "MULTIPLE_COM", data |-> rawResponse],
             errorMessage |-> heldError]
       ELSE IF isSsicSummaryResponse(rawResponse)
       THEN [searchResults |-> [type |-> "SSIC", data |-> rawResponse],
             errorMessage |-> heldError]
       ELSE IF isSingleCompanyResponse(rawResponse)
       THEN [searchResults |->
               [type |-> IF mode = "UEN" THEN "UEN" ELSE "SINGLE_COM",
                data |-> rawResponse],
             errorMessage |-> heldError]
       ELSE IF IsObjectLike(rawResponse) /\ HasField(rawResponse, "message")
       THEN [searchResults |-> heldResults,
             errorMessage |-> rawResponse.obj.message.str]
       ELSE [searchResults |-> heldResults,
             errorMessage |-> InvalidFormatMessage]
  ELSE IF resp.isError
       THEN [searchResults |-> heldResults, errorMessage |-> resp.message]
       ELSE IF resp.statusCode = 404
       THEN [searchResults |-> heldResults, errorMessage |-> NotFoundMessage]
       ELSE [searchResults |-> heldResults, errorMessage |-> UnexpectedMessage]

\* Main.vue:179-212: the values of searchResults and errorMessage after
\* the try / catch, from the search type at that moment, the response and
\* the values held before.  A branch that does not assign a ref leaves it.
SearchOutcome(mode, resp, heldResults, heldError) ==
  IF resp.ok
  THEN LET rawResponse == resp.body IN
       IF isMultipleCompanyResponse(rawResponse)
       THEN [searchResults |-> [type |-> "MULTIPLE_COM", data |-> rawResponse],
             errorMessage |-> heldError]
       ELSE IF isSsicSummaryResponse(rawResponse)
       THEN [searchResults |-> [type |-> "SSIC", data |-> rawResponse],
             errorMessage |-> heldError]
       ELSE IF isSingleCompanyResponse(rawResponse)
       THEN [searchResults |->
               [type |-> IF mode = "UEN" THEN "UEN" ELSE "SINGLE_COM",
                data |-> rawResponse],
             errorMessage |-> heldError]
       ELSE IF IsObjectLike(rawResponse) /\ HasField(rawResponse, "message")
       THEN [searchResults |-> heldResults,
             errorMessage |-> rawResponse.obj.message.str]
       ELSE [searchResults |-> heldResults,
             errorMessage |-> InvalidFormatMessage]
  ELSE IF resp.statusCode = 404
       THEN [searchResults |-> heldResults, errorMessage |-> NotFoundMessage]
       ELSE IF resp.isError
       THEN [searchResults |-> heldResults, errorMessage |-> resp.message]
       ELSE [searchResults |-> heldResults, errorMessage |-> UnexpectedMessage]

RemoveAt(q, i) == SubSeq(q, 1, i - 1) \o SubSeq(q, i + 1, Len(q))

\* Main.vue:256-259
triggerNotification(message) ==
  /\ notificationMessage' = message
  /\ showNotification' = TRUE

\* SearchResponse with a guard that drops the response of a superseded
\* request
SearchResponseLatestOnly(i, resp) ==
  LET out == SearchOutcome(searchType, resp, searchResults, errorMessage) IN
  /\ searchResults' = IF inflight[i].superseded THEN searchResults
                      ELSE out.searchResults
  /\ errorMessage' = IF inflight[i].superseded THEN errorMessage
                     ELSE out.errorMessage
  /\ isLoading' = FALSE
  /\ triggerNotification(ContactUsNotice)
  /\ inflight' = RemoveAt(inflight, i)
  /\ lastApplied' = [superseded |-> inflight[i].superseded, response |-> resp]
  /\ lastDetail' = "none"
  /\ UNCHANGED <<queryVars, selectedCompanyDetails, isLoadingDetails,
                 currentPage, showHeadings, detailInflight>>

\* SearchResponse with the notification raised at the end of the try block
\* and not in the finally block
SearchResponseNotifyOnSuccess(i, resp) ==
  LET out == SearchOutcome(searchType, resp, searchResults, errorMessage) IN
  /\ searchResults' = out.searchResults
  /\ errorMessage' = out.errorMessage
  /\ isLoading' = FALSE
  /\ IF resp.ok
     THEN triggerNotification(ContactUsNotice)
     ELSE UNCHANGED notificationVars
  /\ inflight' = RemoveAt(inflight, i)
  /\ lastApplied' = [superseded |-> inflight[i].superseded, response |-> resp]
  /\ lastDetail' = "none"
  /\ UNCHANGED <<queryVars, selectedCompanyDetails, isLoadingDetails,
                 currentPage, showHeadings, detailInflight>>

\* the response resp of the i-th request in flight arrives
SearchResponse(i, resp) ==
  LET out == SearchOutcome(searchType, resp, searchResults, errorMessage) IN
  /\ searchResults' = out.searchResults
  /\ errorMessage' = out.errorMessage
  /\ isLoading' = FALSE
  /\ triggerNotification(ContactUsNotice)
  /\ inflight' = RemoveAt(inflight, i)
  /\ lastApplied' = [superseded |-> inflight[i].superseded, response |-> resp]
  /\ lastDetail' = "none"
  /\ UNCHANGED <<queryVars, selectedCompanyDetails, isLoadingDetails,
                 currentPage, showHeadings, detailInflight>>

SearchSucceeds(universe) ==
  \E i \in DOMAIN inflight, raw \in universe : SearchResponse(i, Success(raw))

SearchFails ==
  \E i \in DOMAIN inflight, err \in Failures : SearchResponse(i, err)

(***************************************************************************)
(* getCompanyDetailsByUen, Main.vue:221-253.                               *)
(***************************************************************************)
\* getCompanyDetailsByUen clearing the error message of the search as well
getCompanyDetailsClearingError(uen) ==
  /\ isLoadingDetails' = TRUE
  /\ selectedCompanyDetails' = null
  /\ errorMessage' = ""
  /\ detailInflight' = Append(detailInflight, [type |-> "UEN", data |-> uen])
  /\ UNCHANGED <<queryVars, searchResults, isLoading,
                 currentPage, showHeadings, notificationVars, inflight,
                 lastApplied>>
  /\ lastDetail' = "none"

\* getCompanyDetailsByUen sending the search type selected in the form
getCompanyDetailsBySearchType(uen) ==
  /\ isLoadingDetails' = TRUE
  /\ selectedCompanyDetails' = null
  /\ detailInflight' = Append(detailInflight,
                              [type |-> searchType, data |-> uen])
  /\ UNCHANGED <<queryVars, searchResults, errorMessage, isLoading,
                 currentPage, showHeadings, notificationVars, inflight,
                 lastApplied>>
  /\ lastDetail' = "none"

\* `@click="getCompanyDetailsByUen(company.UEN)"` on a row of the page
\* shown, Main.vue:436-441; the part before the await
getCompanyDetailsByUen(uen) ==
  /\ isLoadingDetails' = TRUE
  /\ selectedCompanyDetails' = null
  /\ detailInflight' = Append(detailInflight, [type |-> "UEN", data |-> uen])
  /\ UNCHANGED <<queryVars, searchResults, errorMessage, isLoading,
                 currentPage, showHeadings, notificationVars, inflight,
                 lastApplied>>
  /\ lastDetail' = "none"

ClickRow ==
  /\ ListViewShown
  /\ \E k \in {1, Len(paginatedCompanyList)} \cap DOMAIN paginatedCompanyList :
       getCompanyDetailsByUen(paginatedCompanyList[k].obj.UEN)

\* DetailOutcome without the shape check of Main.vue:241
DetailOutcomeUnchecked(resp, heldSelection) ==
  IF resp.ok
  THEN resp.body
  ELSE heldSelection

\* Main.vue:238-252: the continuation after the await
DetailOutcome(resp, heldSelection) ==
  IF resp.ok /\ isSingleCompanyResponse(resp.body)
  THEN resp.body
  ELSE heldSelection

\* "swallowed" when the continuation only logs the response (the else
\* branch of the shape check, Main.vue:243-246, and the catch block,
\* Main.vue:247-249)
DetailKind(resp) ==
  IF resp.ok /\ isSingleCompanyResponse(resp.body) THEN "none"
  ELSE "swallowed"

\* DetailResponse with isLoadingDetails put back only at the end of the try
\* block and not in the finally block of Main.vue:250-252
DetailResponseNoFinally(i, resp) ==
  /\ selectedCompanyDetails' = DetailOutcome(resp, selectedCompanyDetails)
  /\ isLoadingDetails' = IF resp.ok THEN FALSE ELSE isLoadingDetails
  /\ detailInflight' = RemoveAt(detailInflight, i)
  /\ UNCHANGED <<queryVars, searchResults, errorMessage, isLoading,
                 currentPage, showHeadings, notificationVars,
                 inflight, lastApplied>>
  /\ lastDetail' = DetailKind(resp)

DetailResponse(i, resp) ==
  /\ selectedCompanyDetails' = DetailOutcome(resp, selectedCompanyDetails)
  /\ isLoadingDetails' = FALSE
  /\ detailInflight' = RemoveAt(detailInflight, i)
  /\ UNCHANGED <<queryVars, searchResults, errorMessage, isLoading,
                 currentPage, showHeadings, notificationVars,
                 inflight, lastApplied>>
  /\ lastDetail' = DetailKind(resp)

DetailSucceeds ==
  \E i \in DOMAIN detailInflight, raw \in Payloads :
     DetailResponse(i, Success(raw))

DetailFails ==
  \E i \in DOMAIN detailInflight, err \in Failures : DetailResponse(i, err)

(***************************************************************************)
(* Pagination, Main.vue:139-148 and the buttons, Main.vue:447-455.         *)
(***************************************************************************)
\* goToPageFrom moving an out-of-range page number to the nearest page
goToPageClamping(page, pageNumber, pages) ==
  IF pageNumber < 1 THEN 1
  ELSE IF pageNumber > pages THEN pages
  ELSE pageNumber

\* the value goToPage(pageNumber) leaves in currentPage, Main.vue:134-138
goToPageFrom(page, pageNumber, pages) ==
  IF pageNumber >= 1 /\ pageNumber <= pages THEN pageNumber ELSE page

\* the value nextPage() leaves in currentPage, Main.vue:139-143
nextPageFrom(page, pages) == IF page < pages THEN page + 1 ELSE page

\* the value prevPage() leaves in currentPage, Main.vue:144-148
prevPageFrom(page) == IF page > 1 THEN page - 1 ELSE page

\* the page numbers goToPage is called with
PageNumbers == (-1)..(Ceil(MaxListLen, itemsPerPage) + 1)

\* goToPage is bound to no element of the template; it is a call of the
\* function on the pagination controls
goToPage(pageNumber) ==
  /\ PaginationShown
  /\ currentPage' = goToPageFrom(currentPage, pageNumber, totalPages)
  /\ UNCHANGED <<queryVars, searchResults, errorMessage, isLoading,
                 selectedCompanyDetails, isLoadingDetails, showHeadings,
                 notificationVars, networkVars, lastApplied>>
  /\ lastDetail' = "none"

\* the Next button, disabled when currentPage === totalPages
nextPage ==
  /\ PaginationShown
  /\ currentPage # totalPages
  /\ currentPage' = nextPageFrom(currentPage, totalPages)
  /\ UNCHANGED <<queryVars, searchResults, errorMessage, isLoading,
                 selectedCompanyDetails, isLoadingDetails, showHeadings,
                 notificationVars, networkVars, lastApplied>>
  /\ lastDetail' = "none"

prevPage ==
  /\ PaginationShown
  /\ currentPage # 1
  /\ currentPage' = prevPageFrom(currentPage)
  /\ UNCHANGED <<queryVars, searchResults, errorMessage, isLoading,
                 selectedCompanyDetails, isLoadingDetails, showHeadings,
                 notificationVars, networkVars, lastApplied>>
  /\ lastDetail' = "none"

(***************************************************************************)
(* Notification, Main.vue:261-268 and Main.vue:351-358.                    *)
(***************************************************************************)
TagNames == {"A", "SPAN", "DIV"}

handleNotificationClick(tagName) ==
  /\ showNotification
  /\ showNotification' = IF tagName = "A" THEN FALSE ELSE showNotification
  /\ UNCHANGED <<queryVars, searchResults, errorMessage, isLoading,
                 selectedCompanyDetails, isLoadingDetails, currentPage,
                 showHeadings, notificationMessage, networkVars, lastApplied>>
  /\ lastDetail' = "none"

\* `@click.stop="showNotification = false"`, Main.vue:356
CloseNotification ==
  /\ showNotification
  /\ showNotification' = FALSE
  /\ UNCHANGED <<queryVars, searchResults, errorMessage, isLoading,
                 selectedCompanyDetails, isLoadingDetails, currentPage,
                 showHeadings, notificationMessage, networkVars, lastApplied>>
  /\ lastDetail' = "none"

(***************************************************************************)
(* The component.                                                          *)
(***************************************************************************)
Next ==
  \/ \E t \in Texts : SetSearchText(t)
  \/ ClickSearchBox
  \/ \E option \in SearchTypes : selectOption(option)
  \/ searchEnter
  \/ searchClick
  \/ SearchSucceeds(Payloads)
  \/ SearchFails
  \/ ClickRow
  \/ DetailSucceeds
  \/ DetailFails
  \/ \E pageNumber \in PageNumbers : goToPage(pageNumber)
  \/ nextPage
  \/ prevPage
  \/ \E tagName \in TagNames : handleNotificationClick(tagName)
  \/ CloseNotification

Spec == Init /\ [][Next]_vars

(***************************************************************************)
(* The search workflow alone, on every shape of payload: a query has been  *)
(* composed, it is submitted with the button, and the backend answers with *)
(* any payload of ShapePayloads or fails.                                  *)
(***************************************************************************)
InitClassify ==
  /\ searchType \in SearchTypes
  /\ searchText \in Texts
  /\ searchResults = null
  /\ errorMessage = ""
  /\ isLoading = FALSE
  /\ selectedCompanyDetails = null
  /\ isLoadingDetails = FALSE
  /\ currentPage = 1
  /\ showHeadings = TRUE
  /\ showNotification = FALSE
  /\ notificationMessage = ""
  /\ inflight = <<>>
  /\ detailInflight = <<>>
  /\ lastApplied = null
  /\ lastDetail = "none"

NextClassify ==
  \/ searchClick
  \/ SearchSucceeds(ShapePayloads)
  \/ SearchFails

SpecClassify == InitClassify /\ [][NextClassify]_vars

\* the search workflow when every request issued is answered in the end:
\* `await restOperation.response` settles
SpecClassifyLive ==
  SpecClassify /\ WF_vars(SearchSucceeds(ShapePayloads) \/ SearchFails)

(***************************************************************************)
(* The drill-down alone: a query has been composed, it is submitted with   *)
(* the button, rows of the list shown are clicked, and every request       *)
(* issued is answered in the end, by a payload or by a failure.            *)
(***************************************************************************)
NextDetail ==
  \/ searchClick
  \/ SearchSucceeds(Payloads)
  \/ SearchFails
  \/ ClickRow
  \/ DetailSucceeds
  \/ DetailFails

SpecDetailLive ==
  /\ InitClassify
  /\ [][NextDetail]_vars
  /\ WF_vars(SearchSucceeds(Payloads) \/ SearchFails)
  /\ WF_vars(DetailSucceeds \/ DetailFails)

(***************************************************************************)
(* The component used one search at a time: every search is submitted     *)
(* with the button, which is disabled while a search is loading.           *)
(***************************************************************************)
NextOneSearch ==
  \/ \E t \in Texts : SetSearchText(t)
  \/ ClickSearchBox
  \/ \E option \in SearchTypes : selectOption(option)
  \/ searchClick
  \/ SearchSucceeds(Payloads)
  \/ SearchFails
  \/ ClickRow
  \/ DetailSucceeds
  \/ DetailFails
  \/ \E pageNumber \in PageNumbers : goToPage(pageNumber)
  \/ nextPage
  \/ prevPage
  \/ \E tagName \in TagNames : handleNotificationClick(tagName)
  \/ CloseNotification

SpecOneSearch == Init /\ [][NextOneSearch]_vars

(***************************************************************************)
(* Overlapping searches of one composed query: the query is submitted with *)
(* the button or with Enter, also while a search is loading, and rows of   *)
(* the list shown are clicked.                                             *)
(***************************************************************************)
NextOverlap ==
  \/ searchEnter
  \/ searchClick
  \/ SearchSucceeds(Payloads)
  \/ SearchFails
  \/ ClickRow
  \/ DetailSucceeds
  \/ DetailFails

SpecOverlap == InitClassify /\ [][NextOverlap]_vars

(***************************************************************************)
(* The paging of a list alone: a query has been composed, it is submitted  *)
(* with the button, the backend answers with a list of any length up to    *)
(* MaxListLen or with another payload, and the pages are walked.           *)
(***************************************************************************)
PagingPayloads == {ListPayload(n) : n \in 0..MaxListLen} \cup Payloads

NextPaging ==
  \/ searchClick
  \/ SearchSucceeds(PagingPayloads)
  \/ \E pageNumber \in PageNumbers : goToPage(pageNumber)
  \/ nextPage
  \/ prevPage

SpecPaging == InitClassify /\ [][NextPaging]_vars

TypeOK ==
  /\ searchType \in SearchTypes
  /\ searchText \in Texts
  /\ isLoading \in BOOLEAN
  /\ isLoadingDetails \in BOOLEAN
  /\ currentPage \in 1..(MaxListLen + 1)
  /\ showHeadings \in BOOLEAN
  /\ showNotification \in BOOLEAN
  /\ Len(inflight) <= MaxInFlight
  /\ Len(detailInflight) <= 1
  /\ lastDetail \in {"none", "swallowed"}

(***************************************************************************)
(* Properties.                                                             *)
(***************************************************************************)
\* a step in which the continuation of search() handled a response
SearchHandled == Len(inflight') < Len(inflight)

\* a step in which search() ran, from the Enter key or from the button
SearchSubmitted == searchEnter \/ searchClick

\* C1: for every searchText that is empty or whitespace-only, search()
\* issues no HTTP request and ends with the validation message in
\* errorMessage, searchResults = null and isLoading = false.
C1_BlankSearchIssuesNoRequest ==
  [][ (SearchSubmitted /\ Trim(searchText) = <<>>)
      => /\ inflight' = inflight
         /\ detailInflight' = detailInflight
         /\ errorMessage' = "Please enter a search term."
         /\ searchResults' = null
         /\ isLoading' = FALSE ]_vars

C1_Witness ==
  /\ searchText = <<" ">>
  /\ errorMessage = "Please enter a search term."
  /\ searchResults = null
  /\ ~isLoading
  /\ inflight = <<>>

\* C2: for every non-blank searchText, search() leaves searchResults = null,
\* errorMessage = '', selectedCompanyDetails = null, currentPage = 1 and
\* isLoading = true in the state in which its request is in flight: the
\* values held before the submission are gone before the response arrives.
C2_SubmitClearsBeforeRequest ==
  [][ (SearchSubmitted /\ Trim(searchText) # <<>>)
      => /\ Len(inflight') = Len(inflight) + 1
         /\ searchResults' = null
         /\ errorMessage' = ""
         /\ selectedCompanyDetails' = null
         /\ currentPage' = 1
         /\ isLoading' = TRUE ]_vars

\* a search is in flight after an earlier one completed, and nothing of
\* the earlier one is held
C2_Witness ==
  /\ Len(inflight) = 1
  /\ ~inflight[1].superseded
  /\ isLoading
  /\ showNotification
  /\ searchResults = null
  /\ errorMessage = ""
  /\ selectedCompanyDetails = null
  /\ currentPage = 1

\* C3: in every reachable state in which isLoading is true, searchResults
\* is null, errorMessage is empty and selectedCompanyDetails is null.
C3_NothingHeldWhileLoading ==
  isLoading =>
    /\ searchResults = null
    /\ errorMessage = ""
    /\ selectedCompanyDetails = null

\* C4: when searches overlap, the response of a request that a later
\* submission has superseded is applied all the same: the state held after
\* it is the outcome of that earlier request.
C4_StaleResponseApplied ==
  (lastApplied # null /\ lastApplied.superseded) =>
    LET resp == lastApplied.response IN
    IF resp.ok
    THEN IF \/ isMultipleCompanyResponse(resp.body)
            \/ isSsicSummaryResponse(resp.body)
            \/ isSingleCompanyResponse(resp.body)
         THEN searchResults # null /\ searchResults.data = resp.body
         ELSE errorMessage \in {"no such company",
                                "No results found or invalid response format."}
    ELSE errorMessage \in {"No Live Company Found", resp.message,
                           "An unexpected error occurred. Please try again."}

\* the response of the earlier request arrived last, and its list is held
C4_Witness ==
  /\ lastApplied # null
  /\ lastApplied.superseded
  /\ inflight = <<>>
  /\ lastApplied.response.ok
  /\ searchResults # null
  /\ searchResults.type = "MULTIPLE_COM"
  /\ searchResults.data = lastApplied.response.body

\* C5: at most one search request is in flight at any time.
C5_SingleSearchInFlight == Len(inflight) <= 1

\* C6: the classifier applies its checks in the order list, aggregate,
\* single record, fallback: the outcome of a received payload is that of
\* the first guard that holds, it is the error fallback exactly when no
\* guard holds, and each payload writes exactly one of searchResults and
\* errorMessage.
C6_ChecksInFixedOrder ==
  [][ (SearchHandled /\ lastApplied'.response.ok) =>
      LET raw == lastApplied'.response.body
          list == isMultipleCompanyResponse(raw)
          aggregate == isSsicSummaryResponse(raw)
          single == isSingleCompanyResponse(raw)
      IN /\ list =>
              /\ searchResults' = [type |-> "MULTIPLE_COM", data |-> raw]
              /\ errorMessage' = errorMessage
         /\ (~list /\ aggregate) =>
              /\ searchResults' = [type |-> "SSIC", data |-> raw]
              /\ errorMessage' = errorMessage
         /\ (~list /\ ~aggregate /\ single) =>
              /\ searchResults' \in {[type |-> "UEN", data |-> raw],
                                     [type |-> "SINGLE_COM", data |-> raw]}
              /\ errorMessage' = errorMessage
         /\ (~list /\ ~aggregate /\ ~single) =>
              /\ searchResults' = searchResults
              /\ errorMessage' \in
                   {"No results found or invalid response format."}
                   \cup (IF HasField(raw, "message")
                         THEN {raw.obj.message.str} ELSE {}) ]_vars

\* a payload on which the aggregate and the single-record guard both hold
\* is held as the aggregate result
C6_Witness ==
  /\ searchResults # null
  /\ searchResults.type = "SSIC"
  /\ isSingleCompanyResponse(searchResults.data)
  /\ ~HasField(searchResults.data, "COMPANY_LIST")

\* C7: a payload with DATA_TYPE = 'MULTIPLE_COM', an array COMPANY_LIST and
\* also SSIC and TOTAL_COUNT fields is classified as the list result,
\* never as the aggregate result.
C7_ListBeforeAggregate ==
  [][ (SearchHandled /\ lastApplied'.response.ok) =>
      LET raw == lastApplied'.response.body IN
      ( /\ HasField(raw, "DATA_TYPE")
        /\ raw.obj.DATA_TYPE = Str("MULTIPLE_COM")
        /\ HasField(raw, "COMPANY_LIST")
        /\ IsArray(raw.obj.COMPANY_LIST)
        /\ HasField(raw, "SSIC")
        /\ HasField(raw, "TOTAL_COUNT") )
      => searchResults' = [type |-> "MULTIPLE_COM", data |-> raw] ]_vars

C7_Witness ==
  /\ searchResults # null
  /\ searchResults.type = "MULTIPLE_COM"
  /\ HasField(searchResults.data, "SSIC")
  /\ HasField(searchResults.data, "TOTAL_COUNT")

\* C8: a payload that is not list-shaped and has both an SSIC and a
\* TOTAL_COUNT field is classified as the aggregate result, with the
\* payload unchanged as its data, with or without a DATA_TYPE field and in
\* every search mode; an empty errorMessage stays empty.
C8_AggregateByTwoFields ==
  [][ (SearchHandled /\ lastApplied'.response.ok) =>
      LET raw == lastApplied'.response.body IN
      ( /\ ~isMultipleCompanyResponse(raw)
        /\ HasField(raw, "SSIC")
        /\ HasField(raw, "TOTAL_COUNT") )
      => /\ searchResults' = [type |-> "SSIC", data |-> raw]
         /\ errorMessage = "" => errorMessage' = "" ]_vars

\* an aggregate payload without DATA_TYPE, answered to a NAME search
C8_Witness ==
  /\ lastApplied # null
  /\ searchType = "NAME"
  /\ searchResults # null
  /\ searchResults.type = "SSIC"
  /\ searchResults.data = lastApplied.response.body
  /\ ~HasField(searchResults.data, "DATA_TYPE")
  /\ errorMessage = ""

\* C9: a payload that matches neither the list nor the aggregate shape and
\* has UEN, ENTITY_NAME and DATA_TYPE fields is stored unchanged as a
\* single-record result, tagged 'UEN' when the search was a UEN search and
\* 'SINGLE_COM' when it was a NAME or an SSIC search.
C9_SingleTaggedBySearchMode ==
  [][ \A i \in DOMAIN inflight :
      (inflight' = RemoveAt(inflight, i) /\ lastApplied'.response.ok) =>
      LET raw == lastApplied'.response.body
          sent == inflight[i].type
      IN ( /\ ~isMultipleCompanyResponse(raw)
           /\ ~isSsicSummaryResponse(raw)
           /\ HasField(raw, "UEN")
           /\ HasField(raw, "ENTITY_NAME")
           /\ HasField(raw, "DATA_TYPE") )
         => searchResults' =
              [type |-> IF sent = "UEN" THEN "UEN" ELSE "SINGLE_COM",
               data |-> raw] ]_vars

\* C10: when a received payload matches none of the three shapes, a null
\* searchResults stays null and errorMessage is the payload's message
\* field if the payload is an object with a message field, and the generic
\* message otherwise.
C10_FallbackMessage ==
  [][ (SearchHandled /\ lastApplied'.response.ok) =>
      LET raw == lastApplied'.response.body IN
      ( /\ ~isMultipleCompanyResponse(raw)
        /\ ~isSsicSummaryResponse(raw)
        /\ ~isSingleCompanyResponse(raw) )
      => /\ searchResults = null => searchResults' = null
         /\ errorMessage' =
              IF HasField(raw, "message")
              THEN raw.obj.message.str
              ELSE "No results found or invalid response format." ]_vars

\* a payload with a message and some, but not all, fields of a record
C10_Witness ==
  /\ lastApplied # null
  /\ lastApplied.response.ok
  /\ HasField(lastApplied.response.body, "message")
  /\ HasField(lastApplied.response.body, "UEN")
  /\ ~isSingleCompanyResponse(lastApplied.response.body)
  /\ ~isSsicSummaryResponse(lastApplied.response.body)
  /\ ~isMultipleCompanyResponse(lastApplied.response.body)
  /\ searchResults = null
  /\ errorMessage = "no such company"

\* C11: when the search request fails with status 404, errorMessage is
\* exactly 'No Live Company Found', whatever the thrown value and its
\* message are, and a null searchResults stays null.
C11_NotFoundMessage ==
  [][ (SearchHandled /\ ~lastApplied'.response.ok
         /\ lastApplied'.response.statusCode = 404)
      => /\ errorMessage' = "No Live Company Found"
         /\ searchResults = null => searchResults' = null ]_vars

\* a 404 failure that is an Error with a message of its own
C11_Witness ==
  /\ lastApplied # null
  /\ ~lastApplied.response.ok
  /\ lastApplied.response.statusCode = 404
  /\ lastApplied.response.isError
  /\ lastApplied.response.message = "Not Found"
  /\ errorMessage = "No Live Company Found"
  /\ searchResults = null
  /\ ~isLoading

\* C12: when the search request fails with another status than 404,
\* errorMessage is the message the failure carries, and the generic
\* failure message when the failure carries no message.
C12_FailureMessage ==
  [][ (SearchHandled /\ ~lastApplied'.response.ok
         /\ lastApplied'.response.statusCode # 404)
      => errorMessage' =
           IF lastApplied'.response.message # ""
           THEN lastApplied'.response.message
           ELSE "An unexpected error occurred. Please try again." ]_vars

\* C13: every non-blank search that completes, whatever its outcome, ends
\* with showNotification = true and the fixed notice in
\* notificationMessage, in the step in which isLoading returns to false.
C13_NotificationAfterEverySearch ==
  [][ SearchHandled
      => /\ showNotification'
         /\ notificationMessage' =
              "For detailed reports on any of these companies, please contact us."
         /\ isLoading' = FALSE ]_vars

\* a search that failed with another status than 404 has completed
C13_Witness ==
  /\ lastApplied # null
  /\ ~lastApplied.response.ok
  /\ lastApplied.response.statusCode = 500
  /\ inflight = <<>>
  /\ ~isLoading
  /\ showNotification
  /\ notificationMessage =
       "For detailed reports on any of these companies, please contact us."

\* C14: dismissing the notification, with its close button or by a click
\* on the link embedded in it, sets showNotification to false and leaves
\* searchResults, errorMessage, selectedCompanyDetails, currentPage,
\* isLoading and isLoadingDetails unchanged; no other event takes
\* showNotification from true to false.
C14_DismissOnlyHides ==
  [][ /\ (CloseNotification \/ handleNotificationClick("A"))
         => /\ showNotification' = FALSE
            /\ UNCHANGED <<searchResults, errorMessage, selectedCompanyDetails,
                           currentPage, isLoading, isLoadingDetails>>
      /\ (showNotification /\ ~showNotification')
         => /\ CloseNotification \/ handleNotificationClick("A")
            /\ UNCHANGED <<searchResults, errorMessage, selectedCompanyDetails,
                           currentPage, isLoading, isLoadingDetails,
                           notificationMessage, networkVars, queryVars>> ]_vars

\* the notification has been dismissed while a list, on its second page,
\* and a selected record are held
C14_Witness ==
  /\ ~showNotification
  /\ notificationMessage # ""
  /\ searchResults # null
  /\ selectedCompanyDetails # null
  /\ currentPage = 2
  /\ ~isLoading

\* C15: for a held list of N records and page size P = itemsPerPage (10),
\* totalPages is the ceiling of N / P, so that 25 records give 3 pages;
\* when no list result is held, totalPages is 0.
C15_TotalPagesIsCeiling ==
  IF HoldsList
  THEN LET N == Len(searchResults.data.obj.COMPANY_LIST.arr) IN
       /\ itemsPerPage = 10
       /\ totalPages * itemsPerPage >= N
       /\ (totalPages - 1) * itemsPerPage < N
       /\ N = 25 => totalPages = 3
  ELSE totalPages = 0

\* a list of 25 records is held, on three pages
C15_Witness ==
  /\ HoldsList
  /\ Len(searchResults.data.obj.COMPANY_LIST.arr) = 25
  /\ totalPages = 3

\* C16: where the pagination controls exist, prevPage() leaves currentPage
\* unchanged when currentPage = 1 and nextPage() leaves it unchanged when
\* currentPage = totalPages; otherwise they decrement and increment
\* currentPage by exactly 1.
C16_PageStepsByOne ==
  PaginationShown =>
    /\ prevPageFrom(currentPage) =
         IF currentPage = 1 THEN currentPage ELSE currentPage - 1
    /\ nextPageFrom(currentPage, totalPages) =
         IF currentPage = totalPages THEN currentPage ELSE currentPage + 1

\* C17: in every reachable state currentPage >= 1, and whenever a
\* non-empty list is held currentPage <= totalPages.
C17_PageWithinRange ==
  /\ currentPage >= 1
  /\ (HoldsList /\ Len(searchResults.data.obj.COMPANY_LIST.arr) > 0)
       => currentPage <= totalPages

\* C18: pagination is pure slicing: page k of a held list of N records is
\* the records (k-1)*P+1 .. min(k*P, N) in their original order, every
\* record is on exactly one page, and nextPage, prevPage and goToPage
\* issue no request and do not change searchResults.
C18_PureSlicing ==
  /\ [](HoldsList =>
         LET list == searchResults.data.obj.COMPANY_LIST.arr
             N == Len(list)
             P == itemsPerPage
             Records(k) ==
               [j \in 1..((IF k * P < N THEN k * P ELSE N) - (k - 1) * P)
                  |-> list[(k - 1) * P + j]]
         IN /\ \A k \in 1..totalPages : PageSlice(list, k) = Records(k)
            /\ currentPage \in 1..totalPages
                 => paginatedCompanyList = Records(currentPage)
            /\ \A i \in 1..N :
                 Cardinality({k \in 1..totalPages :
                                \E j \in DOMAIN PageSlice(list, k) :
                                   PageSlice(list, k)[j] = list[i]}) = 1)
  /\ [][ (nextPage \/ prevPage \/ \E n \in PageNumbers : goToPage(n))
         => UNCHANGED <<searchResults, inflight, detailInflight>> ]_vars

\* the second page of a list of 25 records shows its records 11 to 20
C18_Witness ==
  /\ HoldsList
  /\ Len(searchResults.data.obj.COMPANY_LIST.arr) = 25
  /\ currentPage = 2
  /\ Len(paginatedCompanyList) = 10
  /\ paginatedCompanyList[1] = Company(11)
  /\ paginatedCompanyList[10] = Company(20)

\* a step in which a row was clicked, and one in which the continuation of
\* getCompanyDetailsByUen handled a response
DetailRequested == Len(detailInflight') > Len(detailInflight)
DetailHandled == Len(detailInflight') < Len(detailInflight)

\* C19: a row click sets isLoadingDetails = true and clears the previous
\* selection; neither that step nor the one that handles its response
\* modifies errorMessage, searchResults or currentPage or raises the
\* notification; when the response is single-record shaped,
\* selectedCompanyDetails becomes that record and isLoadingDetails false.
C19_DrillDownTouchesSelectionOnly ==
  [][ /\ DetailRequested
         => /\ isLoadingDetails' = TRUE
            /\ selectedCompanyDetails' = null
            /\ UNCHANGED <<errorMessage, searchResults, currentPage,
                           showNotification, notificationMessage>>
      /\ DetailHandled
         => /\ isLoadingDetails' = FALSE
            /\ UNCHANGED <<errorMessage, searchResults, currentPage,
                           showNotification, notificationMessage>>
            /\ \A i \in DOMAIN detailInflight, raw \in Payloads :
                 ( /\ HasField(raw, "UEN")
                   /\ HasField(raw, "ENTITY_NAME")
                   /\ HasField(raw, "DATA_TYPE")
                   /\ DetailResponse(i, Success(raw)) )
                 => selectedCompanyDetails' = raw ]_vars

\* the record of a clicked row is selected over the list it came from,
\* and the error of an earlier response is still held
C19_Witness ==
  /\ HoldsList
  /\ errorMessage = "no such company"
  /\ selectedCompanyDetails = Company(1)
  /\ ~isLoadingDetails
  /\ detailInflight = <<>>

\* C20: every drill-down lookup is sent with type = 'UEN' and data = the
\* UEN of the clicked row, whatever searchType and searchText are, and a
\* row click issues exactly one request.
C20_DrillDownByUen ==
  [][ DetailRequested
      => /\ Len(detailInflight') = Len(detailInflight) + 1
         /\ inflight' = inflight
         /\ LET sent == detailInflight'[Len(detailInflight')] IN
            /\ sent.type = "UEN"
            /\ \E k \in DOMAIN paginatedCompanyList :
                 sent.data = paginatedCompanyList[k].obj.UEN ]_vars

\* the last row of the longest list was clicked after a NAME search
C20_Witness ==
  /\ searchType = "NAME"
  /\ Len(detailInflight) = 1
  /\ detailInflight[1].type = "UEN"
  /\ detailInflight[1].data = Company(MaxListLen).obj.UEN
  /\ isLoadingDetails

\* C21: a failed drill-down is swallowed: when the detail request fails
\* with any status, or its payload is not single-record shaped, the step
\* that handles it leaves errorMessage, searchResults and currentPage
\* unchanged and ends with selectedCompanyDetails = null and
\* isLoadingDetails = false, so that a held list is shown again when no
\* search is loading.
C21_FailedDrillDownSwallowed ==
  [][ (DetailHandled /\ lastDetail' = "swallowed")
      => /\ UNCHANGED <<errorMessage, searchResults, currentPage>>
         /\ selectedCompanyDetails' = null
         /\ isLoadingDetails' = FALSE
         /\ ( /\ ~isLoading'
              /\ searchResults' # null
              /\ HasField(searchResults'.data, "COMPANY_LIST")
              /\ ~HasField(searchResults'.data, "SSIC") )
            => ListViewShown' ]_vars

\* the response to a drill-down from the second page of a list has just
\* been swallowed, and the second page is shown again with no record
\* selected
C21_Witness ==
  /\ lastDetail = "swallowed"
  /\ ListViewShown
  /\ HoldsList
  /\ currentPage = 2
  /\ selectedCompanyDetails = null
  /\ ~isLoadingDetails

\* C22: a list result is produced only by a NAME-mode search: whenever
\* the response to a request is stored with type 'MULTIPLE_COM', that
\* request was sent with type = NAME.
C22_ListOnlyFromNameSearch ==
  [][ \A i \in DOMAIN inflight :
      ( /\ inflight' = RemoveAt(inflight, i)
        /\ lastApplied'.response.ok
        /\ searchResults' # null
        /\ searchResults'.type = "MULTIPLE_COM"
        /\ searchResults'.data = lastApplied'.response.body )
      => inflight[i].type = "NAME" ]_vars

\* C23: every non-blank submission issues exactly one request, whose type
\* is the mode selected at submission and whose data is searchText with
\* its leading and trailing whitespace removed; the data sent is never
\* blank.
C23_OneTrimmedRequest ==
  [][ (SearchSubmitted /\ \E j \in DOMAIN searchText : searchText[j] # " ")
      => /\ Len(inflight') = Len(inflight) + 1
         /\ detailInflight' = detailInflight
         /\ LET sent == inflight'[Len(inflight')]
                d == sent.data
            IN /\ sent.type = searchType
               /\ d # <<>>
               /\ d[1] # " "
               /\ d[Len(d)] # " "
               /\ \E k \in 0..Len(searchText) :
                    /\ SubSeq(searchText, k + 1, k + Len(d)) = d
                    /\ \A j \in DOMAIN searchText :
                         (j <= k \/ j > k + Len(d)) => searchText[j] = " " ]_vars

\* an SSIC search for ' a ' is in flight with data 'a'
C23_Witness ==
  /\ searchText = <<" ", "a", " ">>
  /\ Len(inflight) = 1
  /\ inflight[1].type = "SSIC"
  /\ inflight[1].data = <<"a">>
  /\ isLoading

\* the Error state and the Result states of the search workflow
ErrorState == errorMessage # "" /\ searchResults = null
ResultState ==
  /\ searchResults # null
  /\ searchResults.type \in {"UEN", "SINGLE_COM", "SSIC", "MULTIPLE_COM"}
  /\ errorMessage = ""

\* C24: when every issued request is answered in the end, every non-blank
\* submission leaves Loading in the end, and the step that handles its
\* response ends with isLoading = false in exactly one of the Error state
\* and a Result state.
C24_SearchEndsInErrorOrResult ==
  /\ isLoading ~> ~isLoading
  /\ [][ SearchHandled
         => /\ isLoading' = FALSE
            /\ ErrorState' # ResultState' ]_vars

\* C25: a blank submission goes to Error without entering Loading: the
\* state after the synchronous part of search() on a blank text has
\* isLoading = false, and a step that enters Loading is a submission of a
\* non-blank text that issued a request.
C25_BlankNeverLoading ==
  [][ /\ (SearchSubmitted /\ \A j \in DOMAIN searchText : searchText[j] = " ")
         => /\ isLoading' = FALSE
            /\ errorMessage' = "Please enter a search term."
      /\ (~isLoading /\ isLoading')
         => /\ \E j \in DOMAIN searchText : searchText[j] # " "
            /\ Len(inflight') = Len(inflight) + 1 ]_vars

\* the empty text was submitted: the headings are hidden, the validation
\* message is shown and nothing is loading
C25_Witness ==
  /\ searchText = <<>>
  /\ showHeadings = FALSE
  /\ errorMessage = "Please enter a search term."
  /\ isLoading = FALSE
  /\ inflight = <<>>

\* C27: goToPage(n) clamps n to [1, totalPages]: for every integer n,
\* after goToPage(n) on a non-empty list currentPage is
\* min(max(n, 1), totalPages).
C27_GoToPageClamps ==
  (HoldsList /\ Len(searchResults.data.obj.COMPANY_LIST.arr) > 0) =>
    \A n \in PageNumbers :
      goToPageFrom(currentPage, n, totalPages) =
        (LET atLeastOne == IF n > 1 THEN n ELSE 1
         IN IF atLeastOne < totalPages THEN atLeastOne ELSE totalPages)

\* C27, amended: on a non-empty list goToPage(n) sets currentPage to n
\* when 1 <= n <= totalPages and leaves currentPage unchanged for every
\* other n, so that a currentPage within [1, totalPages] stays within it.
C27_GoToPageInRangeOrIgnored ==
  (HoldsList /\ Len(searchResults.data.obj.COMPANY_LIST.arr) > 0) =>
    \A n \in PageNumbers :
      LET after == goToPageFrom(currentPage, n, totalPages) IN
      /\ (n >= 1 /\ n <= totalPages) => after = n
      /\ (n < 1 \/ n > totalPages) => after = currentPage
      /\ currentPage \in 1..totalPages => after \in 1..totalPages

\* the last of three pages is shown: goToPage(4) is ignored there
C27_Witness ==
  /\ PaginationShown
  /\ totalPages = 3
  /\ currentPage = 3
  /\ goToPageFrom(currentPage, 4, totalPages) = 3

\* C28: the three shape checks are mutually exclusive: no payload that
\* is received satisfies two of isMultipleCompanyResponse,
\* isSsicSummaryResponse and isSingleCompanyResponse.
C28_ChecksMutuallyExclusive ==
  (lastApplied # null /\ lastApplied.response.ok) =>
    LET raw == lastApplied.response.body IN
    /\ ~(isMultipleCompanyResponse(raw) /\ isSsicSummaryResponse(raw))
    /\ ~(isMultipleCompanyResponse(raw) /\ isSingleCompanyResponse(raw))
    /\ ~(isSsicSummaryResponse(raw) /\ isSingleCompanyResponse(raw))

\* C28, amended: two or all three of the shape checks can hold for one
\* payload, but no payload is held under two shapes: the tag of a held
\* result is 'MULTIPLE_COM' exactly when its data is list shaped, 'SSIC'
\* exactly when it is not list shaped and has SSIC and TOTAL_COUNT, and
\* 'UEN' or 'SINGLE_COM' exactly when it is neither and has UEN,
\* ENTITY_NAME and DATA_TYPE.
C28_HeldUnderFirstShape ==
  searchResults # null =>
    LET raw == searchResults.data
        list == /\ HasField(raw, "DATA_TYPE")
                /\ raw.obj.DATA_TYPE = Str("MULTIPLE_COM")
                /\ HasField(raw, "COMPANY_LIST")
                /\ IsArray(raw.obj.COMPANY_LIST)
        aggregate == HasField(raw, "SSIC") /\ HasField(raw, "TOTAL_COUNT")
        single == /\ HasField(raw, "UEN")
                  /\ HasField(raw, "ENTITY_NAME")
                  /\ HasField(raw, "DATA_TYPE")
    IN /\ list \/ aggregate \/ single
       /\ searchResults.type = "MULTIPLE_COM" <=> list
       /\ searchResults.type = "SSIC" <=> (~list /\ aggregate)
       /\ searchResults.type \in {"UEN", "SINGLE_COM"}
            <=> (~list /\ ~aggregate /\ single)

\* a payload on which all three checks hold is held as a list
C28_Witness ==
  /\ searchResults # null
  /\ searchResults.type = "MULTIPLE_COM"
  /\ isMultipleCompanyResponse(searchResults.data)
  /\ isSsicSummaryResponse(searchResults.data)
  /\ isSingleCompanyResponse(searchResults.data)

\* C29: a payload is held as the aggregate result only when its count
\* field is numeric: a held result tagged 'SSIC' has a TOTAL_COUNT that
\* is a number.
C29_AggregateCountIsNumeric ==
  (searchResults # null /\ searchResults.type = "SSIC") =>
    /\ HasField(searchResults.data, "TOTAL_COUNT")
    /\ DOMAIN searchResults.data.obj.TOTAL_COUNT = {"num"}

\* C30: error and result are mutually exclusive in every reachable
\* state: errorMessage is never non-empty while searchResults is held.
C30_ErrorExcludesResult ==
  ~(errorMessage # "" /\ searchResults # null)

\* C31: a selected detail always belongs to the list being shown: in every
\* reachable state, selectedCompanyDetails is held only while searchResults
\* holds a MULTIPLE_COM list; a detail response that arrives after a new
\* search or a reset is not installed.
C31_SelectionBelongsToList ==
  selectedCompanyDetails # null =>
    /\ searchResults # null
    /\ searchResults.type = "MULTIPLE_COM"
    /\ IsArray(searchResults.data.obj.COMPANY_LIST)

\* C32: isLoading is true exactly while a search request is in flight:
\* in every reachable state, isLoading holds if and only if some search
\* request has been issued and its response has not been handled yet.
C32_LoadingIffSearchInFlight ==
  isLoading <=> inflight # <<>>

\* C33: the tag of a single-record result is decided by the mode that was
\* sent with the request that produced it: whatever mode is selected when
\* the response arrives, the result is tagged 'UEN' exactly when the
\* request was sent with type UEN.
C33_TagBySentMode ==
  [][ \A i \in DOMAIN inflight :
      ( /\ inflight' = RemoveAt(inflight, i)
        /\ lastApplied'.response.ok
        /\ searchResults' # null
        /\ searchResults'.type \in {"UEN", "SINGLE_COM"}
        /\ searchResults'.data = lastApplied'.response.body )
      => (searchResults'.type = "UEN" <=> inflight[i].type = "UEN") ]_vars

\* C34: a blank submission clears the searchResults and the
\* selectedCompanyDetails held before it and puts currentPage back to 1,
\* like a valid one, and leaves showNotification and notificationMessage
\* as they were: it neither shows the notification nor hides a visible one.
C34_BlankSubmissionFrame ==
  [][ ((\A j \in DOMAIN searchText : searchText[j] = " ") /\ SearchSubmitted)
      => /\ searchResults' = null
         /\ selectedCompanyDetails' = null
         /\ currentPage' = 1
         /\ showNotification' = showNotification
         /\ notificationMessage' = notificationMessage ]_vars

\* a blank submission after an answered search: the error of the blank
\* submission is shown over cleared results, the notification still visible
C34_Witness ==
  /\ searchText = <<" ">>
  /\ errorMessage = "Please enter a search term."
  /\ searchResults = null
  /\ selectedCompanyDetails = null
  /\ currentPage = 1
  /\ showNotification
  /\ notificationMessage # ""
  /\ inflight = <<>>

\* C35: a click inside the search box other than on the search button
\* (dropdown toggle, dropdown option, text input) runs resetResults: it
\* leaves searchResults null, errorMessage empty, selectedCompanyDetails
\* null, currentPage 1 and showHeadings true, and leaves isLoading,
\* isLoadingDetails, searchText and the notification as they were; it
\* cancels no request in flight, and the response of a search request in
\* flight is applied when it arrives after the click.
C35_SearchBoxClickResets ==
  /\ [][ (ClickSearchBox \/ \E option \in SearchTypes : selectOption(option))
         => /\ searchResults' = null
            /\ errorMessage' = ""
            /\ selectedCompanyDetails' = null
            /\ currentPage' = 1
            /\ showHeadings' = TRUE
            /\ UNCHANGED <<isLoading, isLoadingDetails, searchText,
                           showNotification, notificationMessage,
                           inflight, detailInflight>> ]_vars
  /\ [][ (SearchHandled /\ showHeadings /\ lastApplied'.response.ok)
         => LET raw == lastApplied'.response.body IN
            ( /\ HasField(raw, "DATA_TYPE")
              /\ raw.obj.DATA_TYPE = Str("MULTIPLE_COM")
              /\ HasField(raw, "COMPANY_LIST")
              /\ IsArray(raw.obj.COMPANY_LIST) )
            => searchResults' = [type |-> "MULTIPLE_COM", data |-> raw] ]_vars

\* the search box was clicked while a request was in flight, and the list
\* of its response is held under the headings the click brought back
C35_Witness ==
  /\ showHeadings
  /\ searchResults # null
  /\ searchResults.type = "MULTIPLE_COM"
  /\ lastApplied # null
  /\ searchResults.data = lastApplied.response.body
  /\ currentPage = 1
  /\ ~isLoading

\* C36: when every request issued is answered in the end, every row click
\* (which sets isLoadingDetails) is eventually followed by
\* isLoadingDetails = false, and isLoadingDetails is true only while a
\* drill-down request is in flight.
C36_DetailLoadingEnds ==
  /\ isLoadingDetails ~> ~isLoadingDetails
  /\ [](isLoadingDetails => detailInflight # <<>>)
  /\ [][ DetailRequested => isLoadingDetails' = TRUE ]_vars

\* a row was clicked and its request failed: the list is shown again, no
\* drill-down request in flight
C36_Witness ==
  /\ lastDetail = "swallowed"
  /\ lastApplied # null
  /\ detailInflight = <<>>
  /\ ~isLoadingDetails
  /\ ~isLoading

====
